---- MODULE Spec2Model ----
(***************************************************************************)
(* State-machine model of the PassWeaver / Vaulted API: process startup    *)
(* (passweaver-api.mjs), the JWT authorization module (auth.mjs), the user *)
(* controller (controllers/users.mjs) and the util controller              *)
(* (controllers/util.mjs), over the relational store described by the      *)
(* Prisma schema.                                                          *)
(*                                                                         *)
(* Granularity: every awaited Prisma statement is one atomic store         *)
(* operation.  An action is one store statement together with the local    *)
(* code that precedes it (for the first statement of a handler: the        *)
(* middleware, the admin gate and the payload validation) and the local    *)
(* code that follows it up to the next store statement.  Requests are      *)
(* served concurrently, so the statements of different requests            *)
(* interleave.  Any store statement may fail (store unavailable); the      *)
(* handler's catch then passes the error to the 500 error handler.         *)
(***************************************************************************)
EXTENDS Integers, Sequences, FiniteSets, TLC

\* ---------------------------------------------------------------- bounds
NumReq == 2        \* request slots served concurrently
MaxIds == 3        \* calls of newId()
MaxClock == 1      \* clock ticks
MaxTokens == 2     \* tokens issued
MaxCache == 1      \* permission-cache entries
MaxRequests == 3   \* requests received

\* ------------------------------------------------------ program constants
JwtDuration == 1   \* Config.get().jwt_duration, in clock ticks

AdminId == "0"         \* the reserved id of the built-in admin user
AdminsGroup == "A"
EveryoneGroup == "E"
PersonalRoot == "P"
RootFolder == "0"
JwtKey == "jwt_key"    \* Config.get().jwt_key
NULL == "null"

Reqs == 1..NumReq
Passwords == {"pw1", "pw2"}
BadBody == "bad"       \* a payload the JSON schema rejects

VARIABLES
  cfg,          \* Config.get(): [master_key, jwt_key], TRUE when present
  pcMain,       \* position of the main module
  exitCode,     \* process.exit code, 0 while running
  app,          \* the Express stack: layers installed by app.use, in order
  now,          \* clock
  nextId,       \* number of ids handed out by newId()
  users,        \* Users table: id -> [secret, personalsecret, active]
  usersGroups,  \* UsersGroups table: set of [id, user, group]
  folders,      \* Folders table: set of [id, parent, personal, user]
  items,        \* Items table: set of [id, folder]
  issued,       \* tokens signed so far with the server key
  slot,         \* request slots: the request in flight and the handler's position
  last,         \* the request answered last, with its response
  created,      \* ids of the user records written by create
  served,       \* number of requests received so far
  cache         \* permission cache: set of [user, folder, read, write]

vars == <<cfg, pcMain, exitCode, app, now, nextId, users, usersGroups, folders,
          items, issued, slot, last, created, served, cache>>

store == <<users, usersGroups, folders, items>>
boot == <<cfg, pcMain, exitCode, app>>

\* ---------------------------------------------------------------- tokens
NoTok == [user |-> "", admin |-> FALSE, personalfolder |-> FALSE, exp |-> 0, key |-> "none"]

\* A token signed with a key that is not the server's.
Forged == [user |-> AdminId, admin |-> TRUE, personalfolder |-> TRUE,
           exp |-> MaxClock + JwtDuration + 1, key |-> "other_key"]

\* jsonwebtoken.sign(payload, key, {expiresIn}): the payload, its expiry and the signature.
sign(payload, key, clock, expiresIn) ==
  [user |-> payload.user, admin |-> payload.admin, personalfolder |-> payload.personalfolder,
   exp |-> clock + expiresIn, key |-> key]

\* jsonwebtoken.verify(token, key): the signature first, then the expiry.
verify(token, key, clock) ==
  IF token.key # key THEN "JsonWebTokenError"
  ELSE IF clock >= token.exp THEN "TokenExpiredError"
  ELSE "ok"

\* Auth.isAdmin(entity) for a string: membership of the Admins group in the store.
isAdminUser(ug, user) == \E g \in ug : g.group = AdminsGroup /\ g.user = user

\* Mutant: the admin gate lets every verified request through.
isAdmin_always(q) == TRUE

\* Mutant: the admin gate looks the user's membership up in the store.
isAdmin_lookup(q) == isAdminUser(usersGroups, q.jwt.user)

\* Auth.isAdmin(entity) for a request: the flag embedded in the verified token.
isAdmin(q) == q.jwt.admin

\* Auth.createToken(user, personalfolder)
createToken(ug, user, personalfolder, clock) ==
  sign([user |-> user, admin |-> isAdminUser(ug, user), personalfolder |-> personalfolder],
       JwtKey, clock, JwtDuration)

\* ------------------------------------------------------------- requests
\* req and res of one request.  user, jwt and personalfolder are the fields
\* validateJWT attaches; live records whether the presented token's user was a
\* member of Admins in the store when the request arrived; fault tells that the
\* store fails the request's first statement; cacheAt records the permission
\* cache as it was when the request changed a membership row.
Idle == [pc |-> "idle", route |-> "", auth |-> "absent", tok |-> NoTok, id |-> "",
         body |-> "", jwt |-> NoTok, user |-> "", personalfolder |-> FALSE,
         live |-> FALSE, fault |-> FALSE, newid |-> "", pid |-> "", status |-> 0,
         msg |-> "", outTok |-> NoTok, cacheAt |-> {}]

Request(route, auth, tok, id, body) ==
  [Idle EXCEPT !.pc = "recv", !.route = route, !.auth = auth, !.tok = tok,
               !.id = id, !.body = body]

\* A request arriving with the given Authorization header.
Arrive(route, cred, id, body) ==
  [Request(route, cred[1], cred[2], id, body)
     EXCEPT !.live = \E g \in usersGroups : g.group = AdminsGroup /\ g.user = cred[2].user]

reply(q, status, msg) == [q EXCEPT !.pc = "done", !.status = status, !.msg = msg]

\* The request's first statement throws: the catch block answers 500.
firstFault(q) == reply([q EXCEPT !.fault = TRUE], 500, "Internal error")

\* Mutant: the expired-token error is not told apart from the other errors.
validateJWT_oneMessage(q, clock) ==
  IF q.auth = "absent" THEN reply(q, 401, "A token is required for authentication")
  ELSE IF verify(q.tok, JwtKey, clock) = "ok" /\ q.auth = "bearer"
    THEN [q EXCEPT !.pc = "next", !.jwt = q.tok, !.user = q.tok.user,
                   !.personalfolder = q.tok.personalfolder]
  ELSE reply(q, 401, "Invalid token")

\* Mutant: the middleware looks the token's user up and wants it present and active.
validateJWT_checkUser(q, clock) ==
  IF q.auth = "absent" THEN reply(q, 401, "A token is required for authentication")
  ELSE IF q.auth = "malformed" THEN reply(q, 401, "Invalid token")
  ELSE LET v == verify(q.tok, JwtKey, clock) IN
       IF v = "ok" /\ q.tok.user \in DOMAIN users /\ users[q.tok.user].active
         THEN [q EXCEPT !.pc = "next", !.jwt = q.tok, !.user = q.tok.user,
                        !.personalfolder = q.tok.personalfolder]
       ELSE IF v = "TokenExpiredError" THEN reply(q, 401, "Token expired")
       ELSE reply(q, 401, "Invalid token")

\* Mutant: the middleware sends 401 for a bad signature but goes on to next().
validateJWT_fallThrough(q, clock) ==
  IF q.auth = "absent" THEN reply(q, 401, "A token is required for authentication")
  ELSE IF q.auth = "malformed" THEN reply(q, 401, "Invalid token")
  ELSE LET v == verify(q.tok, JwtKey, clock) IN
       IF v = "TokenExpiredError" THEN reply(q, 401, "Token expired")
       ELSE [q EXCEPT !.pc = "next", !.jwt = q.tok, !.user = q.tok.user,
                      !.personalfolder = q.tok.personalfolder]

\* Auth.validateJWT(req, res, next).  auth = "absent": no Authorization header;
\* "malformed": a header without a second word, so the token is undefined.
validateJWT(q, clock) ==
  IF q.auth = "absent" THEN reply(q, 401, "A token is required for authentication")
  ELSE IF q.auth = "malformed" THEN reply(q, 401, "Invalid token")
  ELSE LET v == verify(q.tok, JwtKey, clock) IN
       IF v = "ok"
         THEN [q EXCEPT !.pc = "next", !.jwt = q.tok, !.user = q.tok.user,
                        !.personalfolder = q.tok.personalfolder]
       ELSE IF v = "TokenExpiredError" THEN reply(q, 401, "Token expired")
       ELSE reply(q, 401, "Invalid token")

\* ----------------------------------------------------------------- store
\* newId(): a fresh id, never handed out before.
newId(n) == "n" \o ToString(n)

\* Crypt.hashPassword / Crypt.checkPassword
hashPassword(p) == "h:" \o p
checkPassword(p, hash) == hash = hashPassword(p)

users_create(us, id, hash) ==
  us @@ (id :> [secret |-> hash, personalsecret |-> NULL, active |-> TRUE])
users_delete(us, id) == [u \in (DOMAIN us) \ {id} |-> us[u]]
usersGroups_deleteMany(ug, user) == {g \in ug : g.user # user}
items_deleteMany(it, folder) == {i \in it : i.folder # folder}
folders_delete(fs, id) == {f \in fs : f.id # id}
folders_findPersonal(fs, user) == {f \in fs : f.personal /\ f.user = user}

\* --------------------------------------------------------------- startup
checkMaster ==
  /\ pcMain = "checkMaster"
  /\ IF ~cfg.master_key
       THEN pcMain' = "exited" /\ exitCode' = 1
       ELSE pcMain' = "checkJwt" /\ exitCode' = exitCode
  /\ UNCHANGED <<cfg, app, now, nextId, store, issued, slot, last, created, served, cache>>

\* Mutant: a missing token-signing key does not stop the startup.
checkJwt_noExit ==
  /\ pcMain = "checkJwt"
  /\ pcMain' = "middleware"
  /\ UNCHANGED <<cfg, exitCode, app, now, nextId, store, issued, slot, last, created, served, cache>>

checkJwt ==
  /\ pcMain = "checkJwt"
  /\ IF ~cfg.jwt_key
       THEN pcMain' = "exited" /\ exitCode' = 2
       ELSE pcMain' = "middleware" /\ exitCode' = exitCode
  /\ UNCHANGED <<cfg, app, now, nextId, store, issued, slot, last, created, served, cache>>

useMiddleware ==
  /\ pcMain = "middleware"
  /\ app' = app \o <<"rateLimit", "json", "morgan">>
  /\ pcMain' = "routers"
  /\ UNCHANGED <<cfg, exitCode, now, nextId, store, issued, slot, last, created, served, cache>>

useRouters ==
  /\ pcMain = "routers"
  /\ app' = app \o <<"items", "folders", "groups", "users", "login", "util", "events",
                     "errorHandler", "notFound">>
  /\ pcMain' = "listen"
  /\ UNCHANGED <<cfg, exitCode, now, nextId, store, issued, slot, last, created, served, cache>>

listen ==
  /\ pcMain = "listen"
  /\ pcMain' = "listening"
  /\ UNCHANGED <<cfg, exitCode, app, now, nextId, store, issued, slot, last, created, served, cache>>

Tick ==
  /\ pcMain = "listening"
  /\ now < MaxClock
  /\ now' = now + 1
  /\ UNCHANGED <<boot, nextId, store, issued, slot, last, created, served, cache>>

\* ------------------------------------------------------- request plumbing
\* What a client can put in the Authorization header: nothing, a header without a
\* token, a token the server issued, a token signed with another key.
Credentials ==
  {<<"absent", NoTok>>, <<"malformed", NoTok>>}
    \cup {<<"bearer", t>> : t \in issued \cup {Forged}}
TargetIds == (DOMAIN users) \cup {"zz"}

env == <<cfg, pcMain, exitCode, app, now, cache>>

\* A request is served only by a listening process; it takes the first free slot.
Free(r) ==
  /\ pcMain = "listening"
  /\ served < MaxRequests
  /\ slot[r].pc = "idle"
  /\ \A r2 \in Reqs : r2 < r => slot[r2].pc # "idle"

\* The handler moves on to q; once answered, the request leaves its slot and the
\* requests still in flight close ranks.
Set(r, q) ==
  IF q.pc = "done"
    THEN /\ slot' = [i \in Reqs |-> IF i < r THEN slot[i]
                                    ELSE IF i < NumReq THEN slot[i + 1]
                                    ELSE Idle]
         /\ last' = q
    ELSE /\ slot' = [slot EXCEPT ![r] = q]
         /\ last' = last

\* The request ends or moves on without touching the store.
Only(r, q) == Set(r, q) /\ UNCHANGED <<env, nextId, store, issued, created>>

\* -------------------------------------------------- users controller: create
\* Mutant: the new user is put in the Admins group.
everyoneMembership_admins(id, user) == [id |-> id, user |-> user, group |-> AdminsGroup]

everyoneMembership(id, user) == [id |-> id, user |-> user, group |-> EveryoneGroup]

personalFolder(id, user) ==
  [id |-> id, parent |-> PersonalRoot, personal |-> TRUE, user |-> user]

\* Admin gate, payload validation, users.create
createUser(r) ==
  \E cred \in Credentials, body \in {BadBody, "pw1"}, fault \in BOOLEAN :
    /\ Free(r)
    /\ served' = served + 1
    /\ LET q == validateJWT(Arrive("create", cred, "", body), now) IN
       IF q.pc = "done" THEN Only(r, q)
       ELSE IF ~isAdmin(q) THEN Only(r, reply(q, 403, "Unauthorized"))
       ELSE IF body = BadBody THEN Only(r, reply(q, 400, "Bad request"))
       ELSE IF fault THEN Only(r, firstFault(q))
       ELSE /\ nextId < MaxIds
            /\ nextId' = nextId + 1
            /\ users' = users_create(users, newId(nextId + 1), hashPassword(body))
            /\ created' = created \cup {newId(nextId + 1)}
            /\ Set(r, [q EXCEPT !.pc = "crFolder", !.newid = newId(nextId + 1)])
            /\ UNCHANGED <<env, usersGroups, folders, items, issued>>

\* folders.create of the personal folder
createFolder(r) ==
  /\ slot[r].pc = "crFolder"
  /\ UNCHANGED served
  /\ nextId < MaxIds
  /\ nextId' = nextId + 1
  /\ folders' = folders \cup {personalFolder(newId(nextId + 1), slot[r].newid)}
  /\ Set(r, [slot[r] EXCEPT !.pc = "crGroup"])
  /\ UNCHANGED <<env, users, usersGroups, items, issued, created>>

\* usersGroups.create of the Everyone membership (foreign key on Users), then 201
createGroup(r) ==
  /\ slot[r].pc = "crGroup"
  /\ UNCHANGED served
  /\ nextId < MaxIds
  /\ nextId' = nextId + 1
  /\ IF slot[r].newid \in DOMAIN users
       THEN /\ usersGroups' = usersGroups \cup {everyoneMembership(newId(nextId + 1), slot[r].newid)}
            /\ Set(r, [reply(slot[r], 201, "success") EXCEPT !.cacheAt = cache])
       ELSE /\ usersGroups' = usersGroups
            /\ Set(r, reply(slot[r], 500, "Internal error"))
  /\ UNCHANGED <<env, users, folders, items, issued, created>>

create(r) == createUser(r) \/ createFolder(r) \/ createGroup(r)

\* -------------------------------------------------- users controller: remove
\* Mutant: no id is reserved.
isReservedAdmin_none(id) == FALSE

\* "Admin user cannot be removed"
isReservedAdmin(id) == id = AdminId

\* Admin gate, users.findUnique, the reserved-id check
removeFind(r) ==
  \E cred \in Credentials, id \in TargetIds, fault \in BOOLEAN :
    /\ Free(r)
    /\ served' = served + 1
    /\ LET q == validateJWT(Arrive("remove", cred, id, ""), now) IN
       IF q.pc = "done" THEN Only(r, q)
       ELSE IF ~isAdmin(q) THEN Only(r, reply(q, 403, "Unauthorized"))
       ELSE IF fault THEN Only(r, firstFault(q))
       ELSE IF id \notin DOMAIN users THEN Only(r, reply(q, 404, "User not found"))
       ELSE IF isReservedAdmin(id) THEN Only(r, reply(q, 422, "Admin user cannot be removed"))
       ELSE Only(r, [q EXCEPT !.pc = "rmPersonal"])

\* folders.findMany({personal: true, user: id}); personal[0].id, or "" when there is none
removePersonal(r) ==
  /\ slot[r].pc = "rmPersonal"
  /\ UNCHANGED served
  /\ LET personal == folders_findPersonal(folders, slot[r].id) IN
       IF personal = {} THEN Only(r, [slot[r] EXCEPT !.pc = "rmBegin", !.pid = ""])
       ELSE \E f \in personal : Only(r, [slot[r] EXCEPT !.pc = "rmBegin", !.pid = f.id])

\* prisma.$transaction(async (tx) => ...): BEGIN on the transaction's connection.
\* The callback never uses tx, so the transaction stays empty.
removeBegin(r) ==
  /\ slot[r].pc = "rmBegin"
  /\ UNCHANGED served
  /\ Only(r, [slot[r] EXCEPT !.pc = "rmGroups"])

\* usersGroups.deleteMany({user: id}), issued on the global client: committed at once
removeGroups(r) ==
  /\ slot[r].pc = "rmGroups"
  /\ UNCHANGED served
  /\ usersGroups' = usersGroups_deleteMany(usersGroups, slot[r].id)
  /\ Set(r, [slot[r] EXCEPT !.pc = IF slot[r].pid # "" THEN "rmItems" ELSE "rmUser",
                             !.cacheAt = IF usersGroups' # usersGroups THEN cache ELSE {}])
  /\ UNCHANGED <<env, nextId, users, folders, items, issued, created>>

\* items.deleteMany({folder: personalId})
removeItems(r) ==
  /\ slot[r].pc = "rmItems"
  /\ UNCHANGED served
  /\ items' = items_deleteMany(items, slot[r].pid)
  /\ Set(r, [slot[r] EXCEPT !.pc = "rmFolder"])
  /\ UNCHANGED <<env, nextId, users, usersGroups, folders, issued, created>>

\* folders.delete({id: personalId}): throws when the folder is gone or items refer to it
removeFolder(r) ==
  /\ slot[r].pc = "rmFolder"
  /\ UNCHANGED served
  /\ IF /\ \E f \in folders : f.id = slot[r].pid
        /\ ~ \E i \in items : i.folder = slot[r].pid
       THEN /\ folders' = folders_delete(folders, slot[r].pid)
            /\ Set(r, [slot[r] EXCEPT !.pc = "rmUser"])
       ELSE /\ folders' = folders
            /\ Set(r, [slot[r] EXCEPT !.pc = "rmRollback"])
  /\ UNCHANGED <<env, nextId, users, usersGroups, items, issued, created>>

\* users.delete({id}): throws when the user is gone or memberships refer to it
removeUser(r) ==
  /\ slot[r].pc = "rmUser"
  /\ UNCHANGED served
  /\ IF /\ slot[r].id \in DOMAIN users
        /\ ~ \E g \in usersGroups : g.user = slot[r].id
       THEN /\ users' = users_delete(users, slot[r].id)
            /\ Set(r, [slot[r] EXCEPT !.pc = "rmCommit"])
       ELSE /\ users' = users
            /\ Set(r, [slot[r] EXCEPT !.pc = "rmRollback"])
  /\ UNCHANGED <<env, nextId, usersGroups, folders, items, issued, created>>

\* The callback returned: COMMIT of the empty transaction, then 200
removeCommit(r) ==
  /\ slot[r].pc = "rmCommit"
  /\ UNCHANGED served
  /\ Only(r, reply(slot[r], 200, "success"))

\* A statement of the callback threw: ROLLBACK of the empty transaction, which
\* undoes nothing, then the error handler's 500
removeRollback(r) ==
  /\ slot[r].pc = "rmRollback"
  /\ UNCHANGED served
  /\ Only(r, reply(slot[r], 500, "Internal error"))

remove(r) ==
  \/ removeFind(r) \/ removePersonal(r) \/ removeBegin(r) \/ removeGroups(r)
  \/ removeItems(r) \/ removeFolder(r) \/ removeUser(r)
  \/ removeCommit(r) \/ removeRollback(r)

\* ------------------------------------------------------------ login route
\* The login controller: looks the user up, checks the login secret and
\* answers with createToken(user.id, false).
loginFind(r) ==
  \E u \in TargetIds, pw \in Passwords :
    /\ Free(r)
    /\ served' = served + 1
    /\ LET q == Request("login", "absent", NoTok, u, pw) IN
       IF u \notin DOMAIN users THEN Only(r, reply(q, 401, "Bad user or wrong password"))
       ELSE IF ~checkPassword(pw, users[u].secret)
         THEN Only(r, reply(q, 401, "Bad user or wrong password"))
       ELSE Only(r, [q EXCEPT !.pc = "lgToken"])

loginToken(r) ==
  /\ slot[r].pc = "lgToken"
  /\ UNCHANGED served
  /\ LET t == createToken(usersGroups, slot[r].id, FALSE, now) IN
       /\ Cardinality(issued \cup {t}) <= MaxTokens
       /\ issued' = issued \cup {t}
       /\ Set(r, [reply(slot[r], 200, "success") EXCEPT !.outTok = t])
  /\ UNCHANGED <<env, nextId, store, created>>

login(r) == loginFind(r) \/ loginToken(r)

\* ------------------------------------- users controller: personalFolderLogin
\* Mutant: the password is not compared with the stored personal secret.
personalLoginCheck_anyPassword(us, user, password) ==
  IF user \notin DOMAIN us THEN "notfound"
  ELSE IF us[user].personalsecret = NULL THEN "nosecret"
  ELSE "ok"

\* users.findUnique({id: req.user}) and Crypt.checkPassword(password, user.personalsecret):
\* "notfound", "wrong", "ok", or "nosecret" when no personal secret was ever set
personalLoginCheck(us, user, password) ==
  IF user \notin DOMAIN us THEN "notfound"
  ELSE IF us[user].personalsecret = NULL THEN "nosecret"
  ELSE IF ~checkPassword(password, us[user].personalsecret) THEN "wrong"
  ELSE "ok"

\* Payload validation, users.findUnique, the password check.  Checking a
\* password against a null hash either rejects it or throws.
personalLoginFind(r) ==
  \E cred \in Credentials, body \in Passwords \cup {BadBody}, fault \in BOOLEAN :
    /\ Free(r)
    /\ served' = served + 1
    /\ LET q == validateJWT(Arrive("personalFolderLogin", cred, "", body), now)
           c == personalLoginCheck(users, q.user, body)
       IN
       IF q.pc = "done" THEN Only(r, q)
       ELSE IF body = BadBody THEN Only(r, reply(q, 400, "Bad request"))
       ELSE IF fault THEN Only(r, firstFault(q))
       ELSE IF c = "notfound" THEN Only(r, reply(q, 401, "Bad user or wrong password"))
       ELSE IF c = "nosecret"
         THEN \/ Only(r, reply(q, 401, "Wrong password"))
              \/ Only(r, reply(q, 500, "Internal error"))
       ELSE IF c = "wrong" THEN Only(r, reply(q, 401, "Wrong password"))
       ELSE Only(r, [q EXCEPT !.pc = "plToken"])

\* Auth.createToken(user.id, true), then 200 with the new token
personalLoginToken(r) ==
  /\ slot[r].pc = "plToken"
  /\ UNCHANGED served
  /\ LET t == createToken(usersGroups, slot[r].user, TRUE, now) IN
       /\ Cardinality(issued \cup {t}) <= MaxTokens
       /\ issued' = issued \cup {t}
       /\ Set(r, [reply(slot[r], 200, "success") EXCEPT !.outTok = t])
  /\ UNCHANGED <<env, nextId, store, created>>

personalFolderLogin(r) == personalLoginFind(r) \/ personalLoginToken(r)

\* --------------------------------------- users controller: setPersonalSecret
\* Mutant: the update has no where clause.
users_updatePersonalSecret_all(us, id, hash) ==
  [u \in DOMAIN us |-> [us[u] EXCEPT !.personalsecret = hash]]

users_updatePersonalSecret(us, id, hash) == [us EXCEPT ![id].personalsecret = hash]

\* Payload validation, users.update({id: req.user}): throws when the user is gone
setPersonalSecret(r) ==
  \E cred \in Credentials, body \in Passwords \cup {BadBody}, fault \in BOOLEAN :
    /\ Free(r)
    /\ served' = served + 1
    /\ LET q == validateJWT(Arrive("setPersonalSecret", cred, "", body), now) IN
       IF q.pc = "done" THEN Only(r, q)
       ELSE IF body = BadBody THEN Only(r, reply(q, 400, "Bad request"))
       ELSE IF fault THEN Only(r, firstFault(q))
       ELSE IF q.user \notin DOMAIN users THEN Only(r, reply(q, 500, "Internal error"))
       ELSE /\ users' = users_updatePersonalSecret(users, q.user, hashPassword(body))
            /\ Set(r, reply(q, 200, "success"))
            /\ UNCHANGED <<env, nextId, usersGroups, folders, items, issued, created>>

\* ------------------------------------------------------ util controller: stats
\* Admin gate, users.count.  The counts themselves (response data) are not recorded.
statsUsers(r) ==
  \E cred \in Credentials, fault \in BOOLEAN :
    /\ Free(r)
    /\ served' = served + 1
    /\ LET q == validateJWT(Arrive("stats", cred, "", ""), now) IN
       IF q.pc = "done" THEN Only(r, q)
       ELSE IF ~isAdmin(q) THEN Only(r, reply(q, 403, "Unauthorized"))
       ELSE IF fault THEN Only(r, firstFault(q))
       ELSE Only(r, [q EXCEPT !.pc = "stItems"])

\* items.count
statsItems(r) ==
  /\ slot[r].pc = "stItems"
  /\ UNCHANGED served
  /\ Only(r, [slot[r] EXCEPT !.pc = "stFolders"])

\* folders.count, Cache.size(), then 200
statsFolders(r) ==
  /\ slot[r].pc = "stFolders"
  /\ UNCHANGED served
  /\ Only(r, reply(slot[r], 200, "success"))

stats(r) == statsUsers(r) \/ statsItems(r) \/ statsFolders(r)

\* ---------------------------------------------- util controller: generatePassword
\* No gate and no statement: a verified request is answered 200 with a password.
generatePassword(r) ==
  \E cred \in Credentials :
    /\ Free(r)
    /\ served' = served + 1
    /\ LET q == validateJWT(Arrive("generatePassword", cred, "", ""), now) IN
       IF q.pc = "done" THEN Only(r, q)
       ELSE Only(r, reply(q, 200, "success"))

\* ------------------------------------------------------- users controller: get
\* users.findUnique({id}), 404 or 200.  No admin gate; the record is not recorded.
get(r) ==
  \E cred \in Credentials, id \in TargetIds, fault \in BOOLEAN :
    /\ Free(r)
    /\ served' = served + 1
    /\ LET q == validateJWT(Arrive("get", cred, id, ""), now) IN
       IF q.pc = "done" THEN Only(r, q)
       ELSE IF fault THEN Only(r, firstFault(q))
       ELSE IF id \notin DOMAIN users THEN Only(r, reply(q, 404, "User not found"))
       ELSE Only(r, reply(q, 200, "success"))

\* ------------------------------------------------- users controller: getGroups
\* usersGroups.findMany({user: id}), 200 with the groups found, none for an id
\* that does not exist.  No admin gate; the groups are not recorded.
getGroups(r) ==
  \E cred \in Credentials, id \in TargetIds, fault \in BOOLEAN :
    /\ Free(r)
    /\ served' = served + 1
    /\ LET q == validateJWT(Arrive("getGroups", cred, id, ""), now) IN
       IF q.pc = "done" THEN Only(r, q)
       ELSE IF fault THEN Only(r, firstFault(q))
       ELSE Only(r, reply(q, 200, "success"))

\* ------------------------------------------------------ users controller: list
\* Admin gate, users.findMany, then 200.  The list itself is not recorded.
list(r) ==
  \E cred \in Credentials, fault \in BOOLEAN :
    /\ Free(r)
    /\ served' = served + 1
    /\ LET q == validateJWT(Arrive("list", cred, "", ""), now) IN
       IF q.pc = "done" THEN Only(r, q)
       ELSE IF ~isAdmin(q) THEN Only(r, reply(q, 403, "Unauthorized"))
       ELSE IF fault THEN Only(r, firstFault(q))
       ELSE Only(r, reply(q, 200, "success"))

\* ---------------------------------------------------- users controller: update
\* The payloads of update: one that fails the schema, and
\* {secret: "pw1", active: false}.
NewSecret == "pw1"
Deactivate == "pw1,off"
UpdateBodies == {BadBody, Deactivate}

\* The requests of update: the valid payload for every target, the invalid one
\* for a target that does not exist.
UpdateInputs == (TargetIds \X {Deactivate}) \cup {<<"zz", BadBody>>}

\* updateStruct applied by prisma.users.update: the fields the payload holds
users_update(us, id, body) ==
  IF body = Deactivate
    THEN [us EXCEPT ![id].secret = hashPassword(NewSecret), ![id].active = FALSE]
    ELSE us

\* Admin gate, payload validation, users.findUnique
updateFind(r) ==
  \E cred \in Credentials, in \in UpdateInputs, fault \in BOOLEAN :
    /\ Free(r)
    /\ served' = served + 1
    /\ LET id == in[1]
           body == in[2]
           q == validateJWT(Arrive("update", cred, id, body), now) IN
       IF q.pc = "done" THEN Only(r, q)
       ELSE IF ~isAdmin(q) THEN Only(r, reply(q, 403, "Unauthorized"))
       ELSE IF body = BadBody THEN Only(r, reply(q, 400, "Bad request"))
       ELSE IF fault THEN Only(r, firstFault(q))
       ELSE IF id \notin DOMAIN users THEN Only(r, reply(q, 404, "User not found"))
       ELSE Only(r, [q EXCEPT !.pc = "upWrite"])

\* users.update({data: updateStruct, where: {id}}): throws when the user is gone
updateWrite(r) ==
  /\ slot[r].pc = "upWrite"
  /\ UNCHANGED served
  /\ IF slot[r].id \notin DOMAIN users
       THEN Only(r, reply(slot[r], 500, "Internal error"))
       ELSE /\ users' = users_update(users, slot[r].id, slot[r].body)
            /\ Set(r, reply(slot[r], 200, "success"))
            /\ UNCHANGED <<env, nextId, usersGroups, folders, items, issued, created>>

update(r) == updateFind(r) \/ updateWrite(r)

\* ------------------------------------------ a store statement in flight fails
InFlight == {"crFolder", "crGroup", "rmPersonal", "rmBegin", "rmGroups", "rmItems",
             "rmFolder", "rmUser", "rmCommit", "plToken", "lgToken", "stItems",
             "stFolders", "upWrite"}

\* The statements issued inside the callback of prisma.$transaction
InTransaction == {"rmGroups", "rmItems", "rmFolder", "rmUser"}

\* The statement throws: inside the transaction's callback the rollback comes
\* first, elsewhere the catch block hands the error to the error handler.
storeFault(r) ==
  /\ slot[r].pc \in InFlight
  /\ UNCHANGED served
  /\ IF slot[r].pc \in InTransaction
       THEN Only(r, [slot[r] EXCEPT !.pc = "rmRollback"])
       ELSE Only(r, reply(slot[r], 500, "Internal error"))

\* ------------------------------------------- groups controller (membership)
\* An administrator adds a user to the Admins group, or takes a user other than
\* the built-in admin out of it.  The request is answered by its one statement;
\* the caller's credentials are not modelled.
groupsAddUser ==
  \E u \in DOMAIN users :
    /\ pcMain = "listening"
    /\ served < MaxRequests
    /\ ~isAdminUser(usersGroups, u)
    /\ usersGroups' = usersGroups \cup {[id |-> "a:" \o u, user |-> u, group |-> AdminsGroup]}
    /\ served' = served + 1
    /\ last' = reply(Request("groupsAddUser", "absent", NoTok, u, ""), 200, "Done")
    /\ UNCHANGED <<env, nextId, users, folders, items, issued, slot, created>>

groupsRemoveUser ==
  \E u \in (DOMAIN users) \ {AdminId} :
    /\ pcMain = "listening"
    /\ served < MaxRequests
    /\ isAdminUser(usersGroups, u)
    /\ usersGroups' = {g \in usersGroups : ~(g.user = u /\ g.group = AdminsGroup)}
    /\ served' = served + 1
    /\ last' = reply(Request("groupsRemoveUser", "absent", NoTok, u, ""), 200, "Done")
    /\ UNCHANGED <<env, nextId, users, folders, items, issued, slot, created>>

\* ----------------------------------------- permission resolver and its cache
\* The seed grant: Admins hold read and write on the Root folder.
folderGroupPermission ==
  {[folder |-> RootFolder, group |-> AdminsGroup, read |-> TRUE, write |-> TRUE]}

\* The chain of a folder's ancestors, from the folder up to its root anchor.
RECURSIVE ancestors(_, _, _)
ancestors(fs, id, fuel) ==
  IF fuel = 0 \/ ~ \E f \in fs : f.id = id THEN {}
  ELSE LET f == CHOOSE x \in fs : x.id = id IN {id} \cup ancestors(fs, f.parent, fuel - 1)

\* resolve(userId, folderId) computed from the store: a personal folder is its
\* owner's alone; otherwise the union of the grants of the user's groups along
\* the ancestor chain, write implying read.
resolve(fs, ug, user, folder) ==
  LET f == CHOOSE x \in fs : x.id = folder
      G == {g.group : g \in {m \in ug : m.user = user}}
      path == ancestors(fs, folder, Cardinality(fs))
      grants == {p \in folderGroupPermission : p.folder \in path /\ p.group \in G}
      w == \E p \in grants : p.write
      rd == \E p \in grants : p.read
  IN IF f.personal THEN [read |-> f.user = user, write |-> f.user = user]
     ELSE [read |-> rd \/ w, write |-> w]

\* A permission lookup through the cache: a hit answers from the cache, a miss
\* computes the permission and stores it.
resolveCached ==
  \E u \in DOMAIN users, f \in {x.id : x \in folders} :
    /\ pcMain = "listening"
    /\ ~ \E e \in cache : e.user = u /\ e.folder = f
    /\ Cardinality(cache) < MaxCache
    /\ cache' = cache \cup {[user |-> u, folder |-> f, perm |-> resolve(folders, usersGroups, u, f)]}
    /\ UNCHANGED <<boot, now, nextId, store, issued, slot, last, created, served>>

\* ------------------------------------------------------------------ Init
Bob == "b"
BobFolder == "pb"

\* The state after construction; bobAdmin says whether the second user has been
\* put in the Admins group.  The second user has set a personal secret, the
\* built-in admin has not.
InitWith(bobAdmin) ==
  /\ cfg \in [master_key : BOOLEAN, jwt_key : BOOLEAN]
  /\ pcMain = "checkMaster"
  /\ exitCode = 0
  /\ app = <<>>
  /\ now = 0
  /\ nextId = 0
  /\ users = (AdminId :> [secret |-> hashPassword("pw1"), personalsecret |-> NULL, active |-> TRUE])
             @@ (Bob :> [secret |-> hashPassword("pw2"), personalsecret |-> hashPassword("pw1"),
                         active |-> TRUE])
  /\ usersGroups = {[id |-> "g0a", user |-> AdminId, group |-> AdminsGroup],
                    [id |-> "g0e", user |-> AdminId, group |-> EveryoneGroup],
                    [id |-> "gbe", user |-> Bob, group |-> EveryoneGroup]}
                   \cup (IF bobAdmin THEN {[id |-> "gba", user |-> Bob, group |-> AdminsGroup]}
                         ELSE {})
  /\ folders = {[id |-> RootFolder, parent |-> NULL, personal |-> FALSE, user |-> NULL],
                [id |-> PersonalRoot, parent |-> NULL, personal |-> FALSE, user |-> NULL],
                [id |-> BobFolder, parent |-> PersonalRoot, personal |-> TRUE, user |-> Bob]}
  /\ items = {[id |-> "i0", folder |-> RootFolder],
              [id |-> "i1", folder |-> BobFolder],
              [id |-> "i2", folder |-> BobFolder]}
  /\ issued = {}
  /\ slot = [r \in Reqs |-> Idle]
  /\ last = Idle
  /\ created = {}
  /\ served = 0
  /\ cache = {}

Init == \E bobAdmin \in BOOLEAN : InitWith(bobAdmin)

Next ==
  \/ checkMaster \/ checkJwt \/ useMiddleware \/ useRouters \/ listen
  \/ Tick
  \/ \E r \in Reqs :
       \/ get(r) \/ list(r) \/ getGroups(r) \/ create(r) \/ update(r) \/ remove(r)
       \/ setPersonalSecret(r) \/ personalFolderLogin(r)
       \/ generatePassword(r) \/ stats(r) \/ login(r) \/ storeFault(r)

\* The code of the repository: startup, the authorization module, the users and
\* util controllers, the login route.
Spec == Init /\ [][Next]_vars

\* ... together with membership changes made through the groups controller.
NextGroups == Next \/ groupsAddUser \/ groupsRemoveUser
SpecGroups == Init /\ [][NextGroups]_vars

\* ... together with permission lookups through the permission cache.
NextCache == Next \/ resolveCached
SpecCache == Init /\ [][NextCache]_vars

\* ====================================================================== claims
AdminRoutes == {"create", "remove", "stats"}

\* The request q was received in this step: it entered a slot, or it was
\* answered by its first statement.
Arrived(q) ==
  /\ served' = served + 1
  /\ \/ \E r \in Reqs : slot[r].pc = "idle" /\ slot'[r].pc # "idle" /\ q = slot'[r]
     \/ slot' = slot /\ q = last'

\* The answers of validateJWT.
RejectedByMiddleware ==
  {"A token is required for authentication", "Invalid token", "Token expired"}

\* A request was answered in this step: by its first statement, or by a later one.
Answered ==
  \/ served' = served + 1 /\ slot' = slot
  \/ \E r \in Reqs : slot[r].pc # "idle" /\ slot'[r].pc = "idle"

MembershipsOf(ug, u) == {g \in ug : g.user = u}
PersonalFoldersOf(fs, u) == {f \in fs : f.personal /\ f.user = u}

\* ---------------------------------------------------------------------- C1
\* C1: user deletion is atomic: in every reachable state the Everyone
\* membership, the personal folder, the two personal items and the user record
\* of the user the store starts with are either all present or all gone.
C1_RemoveAtomic ==
  LET member == \E g \in usersGroups : g.user = Bob
      folder == \E f \in folders : f.id = BobFolder
      item1 == \E i \in items : i.id = "i1"
      item2 == \E i \in items : i.id = "i2"
      user == Bob \in DOMAIN users
  IN \/ member /\ folder /\ item1 /\ item2 /\ user
     \/ ~member /\ ~folder /\ ~item1 /\ ~item2 /\ ~user

\* ---------------------------------------------------------------------- C2
\* C2: when remove(id) is answered 200, the store holds no membership of that
\* user, no personal folder owned by it, no item of its personal folder and no
\* user record with that id.
C2_RemovePost ==
  [][(Answered /\ last'.route = "remove" /\ last'.status = 200) =>
       /\ MembershipsOf(usersGroups', last'.id) = {}
       /\ PersonalFoldersOf(folders', last'.id) = {}
       /\ ~ \E i \in items' : i.folder = last'.pid
       /\ last'.id \notin DOMAIN users']_vars

\* ---------------------------------------------------------------------- C3
\* C3 as stated: every remove request targeting the reserved id "0" is answered 422.
C3_AlwaysAnswered422 ==
  (last.route = "remove" /\ last.id = AdminId) => last.status = 422

\* C3 as amended: user "0" and its Admins membership are always there; a remove
\* request targeting "0" is answered 401 when its token is not verified, 403 when
\* the verified token's admin flag is false, 500 when the user lookup fails and
\* 422 otherwise, and in every case it leaves users, memberships, folders and
\* items unchanged.
C3_AdminNeverRemoved ==
  /\ [](/\ AdminId \in DOMAIN users
        /\ \E g \in usersGroups : g.user = AdminId /\ g.group = AdminsGroup
        /\ \A r \in Reqs : slot[r].route = "remove" => slot[r].id # AdminId
        /\ (last.route = "remove" /\ last.id = AdminId) =>
              last.status = (IF last.jwt = NoTok THEN 401
                             ELSE IF ~last.jwt.admin THEN 403
                             ELSE IF last.fault THEN 500
                             ELSE 422))
  /\ [][(Answered /\ last'.route = "remove" /\ last'.id = AdminId) => UNCHANGED store]_vars

C3_Witness ==
  /\ last.route = "remove" /\ last.id = AdminId /\ last.status = 422
  /\ last.jwt.admin

\* ---------------------------------------------------------------------- C4
\* C4: in every reachable state, every user record written by create has exactly
\* one personal folder (personal, parent "P", user = the user's id).
C4_PersonalFolderWithUser ==
  \A u \in created \cap DOMAIN users :
    Cardinality({f \in PersonalFoldersOf(folders, u) : f.parent = PersonalRoot}) = 1

\* ---------------------------------------------------------------------- C5
\* C5: a token's admin flag is the user's Admins membership when the token is
\* issued, and the admin gate of a request answers by the flag of the request's
\* token alone, whatever the user's membership is when the request arrives.
C5_AdminFlagSnapshot ==
  /\ [][\A t \in issued' \ issued : t.admin = isAdminUser(usersGroups, t.user)]_vars
  /\ [](/\ (last.route \in AdminRoutes /\ last.jwt # NoTok) =>
              (last.status = 403 <=> ~last.jwt.admin)
        /\ \A r \in Reqs : slot[r].route \in AdminRoutes => slot[r].jwt.admin)

\* A token issued to an administrator passed an admin gate after the membership was revoked.
C5_Witness ==
  /\ last.route \in AdminRoutes /\ last.tok \in issued
  /\ last.jwt.admin /\ ~last.live /\ last.status \notin {401, 403}

\* A token issued before its user joined Admins failed an admin gate after the user joined.
C5_WitnessJoined ==
  /\ last.route \in AdminRoutes /\ last.tok \in issued
  /\ ~last.jwt.admin /\ last.live /\ last.status = 403

\* ---------------------------------------------------------------------- C6
\* C6: a token made by createToken expires JwtDuration after it was issued; a
\* request presenting it before that gets the token's user and personalfolder
\* attached and passes the middleware, and a request presenting it from then on is
\* answered 401 "Token expired" with nothing attached.
C6_TokenRoundTrip ==
  [][/\ \A t \in issued' \ issued : t.exp = now + JwtDuration /\ t.key = JwtKey
     /\ \A t \in issued : \A q \in {last'} \cup {slot'[r] : r \in Reqs} :
          (Arrived(q) /\ q.route # "login" /\ q.auth = "bearer" /\ q.tok = t) =>
             IF now < t.exp
               THEN /\ q.user = t.user
                    /\ q.personalfolder = t.personalfolder
                    /\ q.jwt = t
                    /\ q.msg \notin RejectedByMiddleware
               ELSE /\ q.pc = "done" /\ q.status = 401 /\ q.msg = "Token expired"
                    /\ q.user = "" /\ q.jwt = NoTok /\ ~q.personalfolder]_vars

C6_Witness ==
  /\ last.tok \in issued /\ last.auth = "bearer"
  /\ last.status = 401 /\ last.msg = "Token expired"
  /\ now >= last.tok.exp

\* ---------------------------------------------------------------------- C7
\* C7: a token with personalfolder = true is issued only by personalFolderLogin,
\* for the user of the request's verified token, after the password matched that
\* user's stored personal secret; a wrong password or a user that no longer
\* exists is answered 401 without a token; issued tokens never change.
C7_PersonalElevation ==
  [][/\ issued \subseteq issued'
     /\ \A t \in issued' \ issued : t.personalfolder =>
          \E r \in Reqs :
            /\ slot[r].pc = "plToken" /\ slot[r].route = "personalFolderLogin"
            /\ slot[r].jwt \in issued /\ t.user = slot[r].jwt.user
            /\ last'.outTok = t /\ last'.status = 200 /\ last'.tok = slot[r].jwt
     /\ \A r \in Reqs : (slot[r].pc = "idle" /\ slot'[r].pc = "plToken") =>
          /\ slot'[r].jwt \in issued /\ slot'[r].user = slot'[r].jwt.user
          /\ slot'[r].user \in DOMAIN users
          /\ checkPassword(slot'[r].body, users[slot'[r].user].personalsecret)
     /\ (/\ Arrived(last') /\ last'.route = "personalFolderLogin"
         /\ last'.jwt # NoTok /\ last'.body # BadBody /\ ~last'.fault
         /\ \/ last'.user \notin DOMAIN users
            \/ /\ users[last'.user].personalsecret # NULL
               /\ ~checkPassword(last'.body, users[last'.user].personalsecret)) =>
          (last'.status = 401 /\ last'.outTok = NoTok /\ issued' = issued)]_vars

C7_Witness ==
  /\ last.route = "personalFolderLogin" /\ last.status = 200
  /\ last.outTok \in issued /\ last.outTok.personalfolder
  /\ last.tok \in issued /\ ~last.tok.personalfolder
  /\ last.outTok.user = last.tok.user

\* A personalFolderLogin for a user that no longer exists was answered 401.
C7_WitnessGone ==
  /\ last.route = "personalFolderLogin" /\ last.status = 401
  /\ last.jwt # NoTok /\ last.user \notin DOMAIN users

\* ---------------------------------------------------------------------- C8
\* C8: create and remove invalidate the permission cache within the request:
\* when create is answered 201 or remove is answered 200, none of the entries the
\* cache held when the request changed a membership row is still cached.
C8_CacheInvalidated ==
  [][(Answered /\ \/ last'.route = "create" /\ last'.status = 201
                  \/ last'.route = "remove" /\ last'.status = 200) =>
       cache' \cap last'.cacheAt = {}]_vars

\* ---------------------------------------------------------------------- C9
\* C9: without the master key the process exits with code 1, without the
\* token-signing key with code 2, in both cases with nothing installed on the
\* Express stack; it listens, and serves requests, only with both keys present.
C9_ConfigurationFatal ==
  /\ [](/\ ~cfg.master_key =>
             /\ pcMain \in {"checkMaster", "exited"} /\ app = <<>>
             /\ (pcMain = "exited" => exitCode = 1)
        /\ (cfg.master_key /\ ~cfg.jwt_key) =>
             /\ pcMain \in {"checkMaster", "checkJwt", "exited"} /\ app = <<>>
             /\ (pcMain = "exited" => exitCode = 2)
        /\ (pcMain = "listening" \/ served > 0 \/ \E r \in Reqs : slot[r].pc # "idle") =>
             (cfg.master_key /\ cfg.jwt_key /\ exitCode = 0 /\ Len(app) = 12))
  /\ [][/\ (pcMain = "checkMaster" /\ ~cfg.master_key) => (pcMain' = "exited" /\ exitCode' = 1)
        /\ (pcMain = "checkJwt" /\ ~cfg.jwt_key) => (pcMain' = "exited" /\ exitCode' = 2)]_vars

C9_Witness == pcMain = "exited" /\ exitCode = 2 /\ cfg.master_key /\ ~cfg.jwt_key

\* --------------------------------------------------------------------- C10
\* C10: when create is answered 201 the new user is a member of Everyone and not
\* of Admins, so a token issued for it then carries admin = false; and every
\* token issued for a user written by create carries admin = false.
C10_EveryoneOnly ==
  /\ [][(Answered /\ last'.route = "create" /\ last'.status = 201) =>
          /\ \E g \in usersGroups' : g.user = last'.newid /\ g.group = EveryoneGroup
          /\ ~ \E g \in usersGroups' : g.user = last'.newid /\ g.group = AdminsGroup
          /\ ~createToken(usersGroups', last'.newid, FALSE, now).admin]_vars
  /\ [](\A t \in issued : t.user \in created => ~t.admin)

C10_Witness ==
  /\ last.route = "create" /\ last.status = 201
  /\ \E g \in usersGroups : g.user = last.newid /\ g.group = EveryoneGroup
  /\ last.newid \in DOMAIN users

\* --------------------------------------------------------------------- C11
\* The routes whose handler starts with the admin gate.
AdminOnly == {"list", "create", "update", "remove", "stats"}

\* C11: a request on an admin-only route (list, create, update, remove, stats)
\* whose verified token has admin = false is answered 403 by the step that
\* receives it, whatever its payload and target id; no statement of the handler
\* runs (the request never goes in flight) and users, memberships, folders and
\* items are unchanged.
C11_AdminGateFirst ==
  [][\A q \in {last'} \cup {slot'[r] : r \in Reqs} :
       (Arrived(q) /\ q.route \in AdminOnly /\ q.jwt # NoTok /\ ~q.jwt.admin) =>
          /\ q = last' /\ q.pc = "done"
          /\ q.status = 403 /\ q.msg = "Unauthorized"
          /\ ~q.fault
          /\ slot' = slot
          /\ UNCHANGED <<store, nextId, issued, created>>]_vars

\* An update with an invalid payload for a user that does not exist was answered 403.
C11_Witness ==
  /\ last.route = "update" /\ last.status = 403
  /\ last.jwt \in issued /\ ~last.jwt.admin
  /\ last.body = BadBody /\ last.id \notin DOMAIN users

\* A remove of an existing user by a caller that is not an administrator was answered 403.
C11_WitnessExisting ==
  /\ last.route = "remove" /\ last.status = 403
  /\ last.jwt \in issued /\ ~last.jwt.admin
  /\ last.id \in DOMAIN users

\* --------------------------------------------------------------------- C12
\* The request presents a token that jsonwebtoken.verify accepts now.
Verified(q) == q.auth = "bearer" /\ verify(q.tok, JwtKey, now) = "ok"

\* C12: on a route guarded by validateJWT, a request with no Authorization
\* header, a header without a token, a token with a bad signature or an expired
\* token is answered 401 by the step that receives it, with the message of its
\* case, with user, jwt and personalfolder unset, without going in flight and
\* without any change to the store; a request in flight on a guarded route, and
\* a request answered by a controller, carries the token that was verified.
C12_NoHandlerUnverified ==
  /\ [][\A q \in {last'} \cup {slot'[r] : r \in Reqs} :
          (Arrived(q) /\ q.route # "login" /\ ~Verified(q)) =>
             /\ q = last' /\ q.pc = "done" /\ q.status = 401
             /\ q.msg = (IF q.auth = "absent" THEN "A token is required for authentication"
                         ELSE IF q.auth = "bearer" /\ q.tok.key = JwtKey THEN "Token expired"
                         ELSE "Invalid token")
             /\ q.user = "" /\ q.jwt = NoTok /\ ~q.personalfolder
             /\ slot' = slot
             /\ UNCHANGED <<store, nextId, issued, created>>]_vars
  /\ [](/\ \A r \in Reqs : (slot[r].pc # "idle" /\ slot[r].route # "login") =>
              /\ slot[r].auth = "bearer" /\ slot[r].jwt = slot[r].tok
              /\ slot[r].tok.key = JwtKey /\ slot[r].user = slot[r].tok.user
        /\ (last.pc = "done" /\ last.route # "login" /\ last.msg \notin RejectedByMiddleware) =>
              /\ last.auth = "bearer" /\ last.jwt = last.tok
              /\ last.tok.key = JwtKey /\ last.user = last.tok.user)

\* generatePassword was refused to a token with a bad signature.
C12_Witness ==
  /\ last.route = "generatePassword" /\ last.status = 401
  /\ last.tok = Forged /\ last.msg = "Invalid token" /\ last.jwt = NoTok

\* stats was refused to an expired token of an administrator.
C12_WitnessExpired ==
  /\ last.route = "stats" /\ last.status = 401 /\ last.msg = "Token expired"
  /\ last.tok \in issued /\ last.tok.admin /\ last.jwt = NoTok

\* --------------------------------------------------------------------- C13
\* C13: in every reachable state every folder with personal = true is owned by
\* a user that exists in the users table.
C13_NoOrphanPersonalFolder ==
  \A f \in folders : f.personal => f.user \in DOMAIN users

\* --------------------------------------------------------------------- C14
\* C14: what validateJWT answers for a token is a function of the token, the
\* signing key and the clock: in every reachable store, a token made by
\* createToken is accepted, with the user, admin flag and personalfolder flag it
\* was issued with, exactly while the clock is below its expiry, and every
\* request presenting it is treated so, also after its user was removed,
\* deactivated or given another password.
C14_VerificationStateless ==
  /\ [](\A t \in issued \cup {Forged} :
          LET q == validateJWT(Request("stats", "bearer", t, "", ""), now) IN
            IF t.key = JwtKey /\ now < t.exp
              THEN /\ q.pc = "next" /\ q.jwt = t /\ q.user = t.user
                   /\ q.jwt.admin = t.admin /\ q.personalfolder = t.personalfolder
              ELSE /\ q.pc = "done" /\ q.status = 401 /\ q.jwt = NoTok)
  /\ [][\A q \in {last'} \cup {slot'[r] : r \in Reqs} :
          (Arrived(q) /\ q.route # "login" /\ q.auth = "bearer" /\ q.tok \in issued) =>
             IF now < q.tok.exp
               THEN /\ q.jwt = q.tok /\ q.user = q.tok.user
                    /\ q.personalfolder = q.tok.personalfolder
                    /\ q.msg \notin RejectedByMiddleware
               ELSE q.status = 401 /\ q.jwt = NoTok]_vars

\* The routes answered by the step that receives the request.
AnsweredAtOnce == {"get", "getGroups", "list", "generatePassword"}

\* No request is in flight: the latest answer was given in the store of this state.
Quiet == \A r \in Reqs : slot[r].pc = "idle"

\* A token was accepted after its user had been removed.
C14_Witness ==
  /\ Quiet /\ last.route \in AnsweredAtOnce /\ last.tok \in issued /\ last.jwt = last.tok
  /\ last.msg \notin RejectedByMiddleware
  /\ last.user \notin DOMAIN users

\* A token was accepted after its user had been deactivated.
C14_WitnessInactive ==
  /\ Quiet /\ last.route \in AnsweredAtOnce /\ last.tok \in issued /\ last.jwt = last.tok
  /\ last.msg \notin RejectedByMiddleware
  /\ last.user \in DOMAIN users /\ ~users[last.user].active

\* A token was accepted after its user's password had been changed.
C14_WitnessPassword ==
  /\ Quiet /\ last.route \in AnsweredAtOnce /\ last.tok \in issued /\ last.jwt = last.tok
  /\ last.msg \notin RejectedByMiddleware
  /\ last.user = Bob /\ Bob \in DOMAIN users /\ users[Bob].secret = hashPassword("pw1")

\* --------------------------------------------------------------------- C15
\* C15: a setPersonalSecret request changes nothing but the personal secret of
\* the user of its verified token, which becomes the hash of the payload when the
\* request is answered 200, whatever the flags of the token; no other step
\* changes the personal secret of a user; and a personalFolderLogin of a user
\* that has a personal secret goes on to issue the token when its password is the
\* one most recently set (the one whose hash is stored), and is answered 401
\* "Wrong password" for any other password.
C15_PersonalSecretOnly ==
  [][/\ (Answered /\ last'.route = "setPersonalSecret") =>
          /\ UNCHANGED <<usersGroups, folders, items, issued, nextId, created>>
          /\ DOMAIN users' = DOMAIN users
          /\ \A u \in DOMAIN users :
               /\ users'[u].secret = users[u].secret
               /\ users'[u].active = users[u].active
               /\ u # last'.user => users'[u].personalsecret = users[u].personalsecret
          /\ IF last'.status = 200
               THEN /\ last'.jwt # NoTok /\ last'.user = last'.jwt.user
                    /\ users'[last'.user].personalsecret = hashPassword(last'.body)
               ELSE users' = users
     /\ \A u \in DOMAIN users \cap DOMAIN users' :
          users'[u].personalsecret # users[u].personalsecret =>
             /\ Answered /\ last'.route = "setPersonalSecret" /\ last'.status = 200
             /\ last'.user = u
     /\ \A q \in {last'} \cup {slot'[r] : r \in Reqs} :
          (/\ Arrived(q) /\ q.route = "personalFolderLogin"
           /\ q.jwt # NoTok /\ q.body \in Passwords /\ ~q.fault
           /\ q.user \in DOMAIN users /\ users[q.user].personalsecret # NULL) =>
             IF users[q.user].personalsecret = hashPassword(q.body)
               THEN q.pc = "plToken"
               ELSE /\ q = last' /\ q.status = 401 /\ q.msg = "Wrong password"
                    /\ q.outTok = NoTok /\ issued' = issued
     /\ (Answered /\ last'.route = "personalFolderLogin" /\ last'.status = 200) =>
          /\ last'.outTok \in issued'
          /\ last'.outTok.user = last'.user /\ last'.outTok.personalfolder]_vars

\* The user replaced its personal secret; its personalFolderLogin with the earlier
\* password was answered 401.
C15_Witness ==
  /\ last.route = "personalFolderLogin" /\ last.status = 401 /\ last.msg = "Wrong password"
  /\ last.user = Bob /\ last.body = "pw1"
  /\ Bob \in DOMAIN users /\ users[Bob].personalsecret = hashPassword("pw2")

\* ... and with the password it set last, 200 with a personal-folder token.
C15_WitnessLatest ==
  /\ last.route = "personalFolderLogin" /\ last.status = 200
  /\ last.user = Bob /\ last.body = "pw2" /\ last.outTok.personalfolder
  /\ Bob \in DOMAIN users /\ users[Bob].personalsecret = hashPassword("pw2")

\* A token with the admin flag set a personal secret: only that user's secret changed.
C15_WitnessAdmin ==
  /\ last.route = "setPersonalSecret" /\ last.status = 200 /\ last.jwt.admin
  /\ users[last.user].personalsecret = hashPassword(last.body)
====
